---- MODULE Spec2Model ----
(***************************************************************************)
(* NELF (No Escape List Format): the cell decoder NelfIter, the cell       *)
(* encoder ToCell::to_cell and the list encoder ToNelf::to_nelf of         *)
(* src/src/lib.rs, with the uses made of them in src/tests/integration.rs. *)
(*                                                                         *)
(* A byte is its integer value; a byte string (&[u8], Vec<u8>) is a        *)
(* sequence of bytes.  Offsets into a buffer are 0-based as in the source, *)
(* so the byte at offset i of str is str[i + 1].                           *)
(***************************************************************************)
EXTENDS Integers, Sequences, FiniteSets

VARIABLES
    list,      \* the strings handed to to_nelf, in order
    fill,      \* the filler strings written around the cells (<<>>: none)
    frame,     \* a hand-framed cell: [open, n] (n = 0: none)
    depth,     \* how many times the encoded list was wrapped as one cell
    level,     \* how many wrappings still surround `string`
    string,    \* NelfIter.string: the buffer being decoded
    index,     \* NelfIter.index: the cursor
    yielded,   \* the slices [a, b) returned as Some by next, in order
    nones,     \* how many calls of next returned None
    pc,        \* "input", "encoded", "iter"
    panicked   \* a slice or index expression of next went out of range

vars == <<list, fill, frame, depth, level, string, index, yielded, nones, pc,
          panicked>>

(***************************************************************************)
(* The delimiter alphabet, and two bytes that are no delimiters.           *)
(***************************************************************************)
PIPE == 124
FWD == 47
BACK == 92
ByteA == 65
ByteC == 67

Delims == {PIPE, FWD, BACK}
Bytes == {PIPE, FWD, BACK, ByteA}
FillerBytes == {ByteA, ByteC}

\* Option<usize>::None
None == -1

(***************************************************************************)
(* Bounds of the model.                                                    *)
(***************************************************************************)
MaxBuf == 5      \* length of an arbitrary buffer given to the decoder
MaxDoc == 5      \* weight of a list: one per cell, one per content or filler byte
MaxDepth == 3    \* nesting depth
MaxLen == 4      \* length of the content of a hand-framed cell
MaxM == 3        \* run length of a hand-framed cell
MaxNone == 2     \* calls of next observed after the sequence has ended

Rep(b, n) == [i \in 1..n |-> b]

Max2(a, b) == IF a >= b THEN a ELSE b

Min2(a, b) == IF a <= b THEN a ELSE b

Strings(S, n) == UNION {[1..k -> S] : k \in 0..n}

(***************************************************************************)
(* NelfIter::next                                                          *)
(***************************************************************************)

\* Mutant of FindDelim: the bytes before the first delimiter are not skipped.
FindDelim_noSkip(str, from) ==
    IF from >= Len(str) THEN None
    ELSE IF str[from + 1] \in Delims THEN from
    ELSE None

\* lines 51-55: the offset of the first delimiter byte at or after `from`.
RECURSIVE FindDelim(_, _)
FindDelim(str, from) ==
    IF from >= Len(str) THEN None
    ELSE IF str[from + 1] \in Delims THEN from
    ELSE FindDelim(str, from + 1)

\* Mutant of FindRunEnd: a run that reaches the end of the buffer is taken as an
\* opening run of that length instead of ending the sequence.
RECURSIVE FindRunEnd_toEnd(_, _, _, _)
FindRunEnd_toEnd(str, from, lch, i) ==
    IF from + i >= Len(str) THEN i
    ELSE IF str[from + i + 1] # lch THEN i
    ELSE FindRunEnd_toEnd(str, from, lch, i + 1)

\* lines 57-61: the offset, relative to `from`, of the first byte that is not
\* lch; None when the run of lch goes on to the end of the buffer.
RECURSIVE FindRunEnd(_, _, _, _)
FindRunEnd(str, from, lch, i) ==
    IF from + i >= Len(str) THEN None
    ELSE IF str[from + i + 1] # lch THEN i
    ELSE FindRunEnd(str, from, lch, i + 1)

\* lines 67-72
rch(lch) ==
    CASE lch = PIPE -> PIPE
      [] lch = FWD -> BACK
      [] lch = BACK -> FWD

\* Mutant of Scan: the closing run takes in every closing byte that follows it.
RECURSIVE Scan_greedy(_, _, _, _, _)
Scan_greedy(str, i, count, len, r) ==
    IF i < Len(str) /\ (count # len \/ str[i + 1] = r)
    THEN Scan_greedy(str, i + 1,
                     IF str[i + 1] = r THEN Min2(count + 1, len) ELSE 0, len, r)
    ELSE [index |-> i, count |-> count]

\* Mutant of Scan: a byte that is not the closing byte does not reset the count.
RECURSIVE Scan_noReset(_, _, _, _, _)
Scan_noReset(str, i, count, len, r) ==
    IF i < Len(str) /\ count # len
    THEN Scan_noReset(str, i + 1,
                      IF str[i + 1] = r THEN count + 1 ELSE count, len, r)
    ELSE [index |-> i, count |-> count]

\* lines 74-88: the closing scan, from cursor i with `count` closing bytes seen.
RECURSIVE Scan(_, _, _, _, _)
Scan(str, i, count, len, r) ==
    IF i < Len(str) /\ count # len
    THEN Scan(str, i + 1, IF str[i + 1] = r THEN count + 1 ELSE 0, len, r)
    ELSE [index |-> i, count |-> count]

\* Mutant of Slice: an unclosed cell loses its partial closing run.
Slice_dropPartial(str, start, idx, count, len) ==
    IF count = len
    THEN [a |-> start, b |-> idx - len]
    ELSE [a |-> start, b |-> Len(str) - count]

\* Mutant of Slice: the end of a closed cell is off by one.
Slice_offByOne(str, start, idx, count, len) ==
    IF count = len
    THEN [a |-> start, b |-> idx - len - 1]
    ELSE [a |-> start, b |-> Len(str)]

\* lines 90-94: the slice returned, as offsets [a, b).
Slice(str, start, idx, count, len) ==
    IF count = len
    THEN [a |-> start, b |-> idx - len]
    ELSE [a |-> start, b |-> Len(str)]

\* A slice expression str[a..b] panics unless a <= b <= len.
SliceOk(str, s) == 0 <= s.a /\ s.a <= s.b /\ s.b <= Len(str)

\* lines 49-95: one call, as the cursor it leaves and what it returns.
NextResult(str, idx) ==
    IF idx > Len(str) THEN [index |-> idx, some |-> FALSE, panic |-> TRUE]
    ELSE
    LET p == FindDelim(str, idx) IN
    IF p = None THEN [index |-> idx, some |-> FALSE, panic |-> FALSE]
    ELSE
    LET lch == str[p + 1]
        len == FindRunEnd(str, p, lch, 0)
    IN
    IF len = None THEN [index |-> p, some |-> FALSE, panic |-> FALSE]
    ELSE
    LET start == p + len
        sc == Scan(str, start, 0, len, rch(lch))
        sl == Slice(str, start, sc.index, sc.count, len)
    IN
    IF SliceOk(str, sl)
    THEN [index |-> sc.index, some |-> TRUE, panic |-> FALSE, item |-> sl]
    ELSE [index |-> sc.index, some |-> FALSE, panic |-> TRUE]

NelfIter_next ==
    /\ pc = "iter"
    /\ ~panicked
    /\ nones < MaxNone
    /\ LET r == NextResult(string, index) IN
        /\ index' = r.index
        /\ panicked' = r.panic
        /\ yielded' = IF r.some THEN Append(yielded, r.item) ELSE yielded
        /\ nones' = IF r.some \/ r.panic THEN nones ELSE nones + 1
    /\ UNCHANGED <<list, fill, frame, depth, level, string, pc>>

\* The bytes of a slice of str.
Content(str, s) == SubSeq(str, s.a + 1, s.b)

Contents(str, ys) == [i \in 1..Len(ys) |-> Content(str, ys[i])]

(***************************************************************************)
(* The decoder over an arbitrary buffer: NelfIter::from_string(buffer).    *)
(***************************************************************************)
InitRaw ==
    /\ string \in Strings(Bytes, MaxBuf)
    /\ index = 0
    /\ yielded = <<>>
    /\ nones = 0
    /\ pc = "iter"
    /\ panicked = FALSE
    /\ list = <<>>
    /\ fill = <<>>
    /\ frame = [open |-> 0, n |-> 0]
    /\ depth = 0
    /\ level = 0

NextRaw == NelfIter_next

SpecRaw == InitRaw /\ [][NextRaw]_vars

(***************************************************************************)
(* ToCell::to_cell for &[u8]                                               *)
(***************************************************************************)

\* usize::MAX (lines 131-133).  The model's integers are 32 bits wide; the value
\* only has to exceed every run length, which no buffer of the model reaches.
usize_MAX == 2147483647

\* Mutant of ScanMax: the running count is never reset.
RECURSIVE ScanMax_noReset(_, _, _, _, _)
ScanMax_noReset(s, c, i, state, best) ==
    IF i > Len(s) THEN best
    ELSE LET st == IF s[i] = c THEN state + 1 ELSE state
         IN ScanMax_noReset(s, c, i + 1, st, Max2(best, st))

\* lines 137-148: .iter().scan(0, ..).max() over the bytes from the i-th on:
\* the longest run of consecutive bytes c.
RECURSIVE ScanMax(_, _, _, _, _)
ScanMax(s, c, i, state, best) ==
    IF i > Len(s) THEN best
    ELSE LET st == IF s[i] = c THEN state + 1 ELSE 0
         IN ScanMax(s, c, i + 1, st, Max2(best, st))

\* Mutant of RequiredRun: the "+ 1" is forgotten.
RequiredRun_noPlusOne(s, c) == ScanMax(s, c, 1, 0, 0)

\* lines 136-149, 153-166, 170-183: the run length a scheme closing with c needs.
RequiredRun(s, c) == ScanMax(s, c, 1, 0, 0) + 1

\* lines 113-129: which schemes the first and the last byte leave usable.
Flags(s) ==
    LET first == s[1]
        last == s[Len(s)]
    IN [pipe |-> first # PIPE /\ last # PIPE,
        forward |-> first # FWD /\ last # BACK,
        back |-> first # BACK /\ last # FWD]

\* lines 131-184
Maxes(s) ==
    LET f == Flags(s) IN
    [pipe_max |-> IF f.pipe THEN RequiredRun(s, PIPE) ELSE usize_MAX,
     forward_max |-> IF f.forward THEN RequiredRun(s, BACK) ELSE usize_MAX,
     back_max |-> IF f.back THEN RequiredRun(s, FWD) ELSE usize_MAX]

\* Mutant of Assemble: the forward scheme is tried before the pipe scheme.
Assemble_forwardFirst(s, m) ==
    LET min == Min2(Min2(m.pipe_max, m.forward_max), m.back_max) IN
    IF m.forward_max = min THEN Rep(FWD, min) \o s \o Rep(BACK, min)
    ELSE IF m.pipe_max = min THEN Rep(PIPE, min) \o s \o Rep(PIPE, min)
    ELSE Rep(BACK, min) \o s \o Rep(FWD, min)

\* lines 186-200
Assemble(s, m) ==
    LET min == Min2(Min2(m.pipe_max, m.forward_max), m.back_max) IN
    IF m.pipe_max = min THEN Rep(PIPE, min) \o s \o Rep(PIPE, min)
    ELSE IF m.forward_max = min THEN Rep(FWD, min) \o s \o Rep(BACK, min)
    ELSE Rep(BACK, min) \o s \o Rep(FWD, min)

\* lines 109-206
to_cell(s) ==
    IF s # <<>> THEN Assemble(s, Maxes(s)) ELSE <<FWD, BACK>>

(***************************************************************************)
(* ToNelf::to_nelf                                                         *)
(***************************************************************************)

\* lines 252-260: the cells of the strings from the i-th on, appended in order.
RECURSIVE to_nelf_from(_, _)
to_nelf_from(L, i) ==
    IF i > Len(L) THEN <<>> ELSE to_cell(L[i]) \o to_nelf_from(L, i + 1)

to_nelf(L) == to_nelf_from(L, 1)

(***************************************************************************)
(* Encoding a list, nesting it, writing filler around its cells, and       *)
(* decoding the result.                                                    *)
(***************************************************************************)

\* The lists of strings of total weight at most n.
RECURSIVE ListsW(_)
ListsW(n) ==
    IF n <= 0 THEN {<<>>}
    ELSE {<<>>} \cup
         UNION {{<<s>> \o l : s \in [1..k -> Bytes], l \in ListsW(n - 1 - k)}
                : k \in 0..(n - 1)}

RECURSIVE SumLen(_, _)
SumLen(L, i) == IF i > Len(L) THEN 0 ELSE Len(L[i]) + SumLen(L, i + 1)

Weight(L) == Len(L) + SumLen(L, 1)

\* str = to_nelf(L) with F[i] written before the i-th cell and F[Len(L) + 1]
\* after the last one; off is the offset of the i-th cell in str.
RECURSIVE Interleave(_, _, _, _, _)
Interleave(str, L, F, i, off) ==
    IF i > Len(L) THEN F[i]
    ELSE LET n == Len(to_cell(L[i])) IN
         F[i] \o SubSeq(str, off + 1, off + n)
              \o Interleave(str, L, F, i + 1, off + n)

Init ==
    /\ list \in ListsW(MaxDoc)
    /\ string = <<>>
    /\ index = 0
    /\ yielded = <<>>
    /\ nones = 0
    /\ pc = "input"
    /\ panicked = FALSE
    /\ fill = <<>>
    /\ frame = [open |-> 0, n |-> 0]
    /\ depth = 0
    /\ level = 0

\* list.to_nelf()
ToNelf ==
    /\ pc = "input"
    /\ string' = to_nelf(list)
    /\ pc' = "encoded"
    /\ UNCHANGED <<list, fill, frame, depth, level, index, yielded, nones,
                   panicked>>

\* [nelf].to_nelf(): the encoded list becomes the one element of an outer list.
Wrap ==
    /\ pc = "encoded"
    /\ fill = <<>>
    /\ depth < MaxDepth
    /\ string' = to_nelf(<<string>>)
    /\ depth' = depth + 1
    /\ level' = level + 1
    /\ UNCHANGED <<list, fill, frame, index, yielded, nones, pc, panicked>>

\* Filler bytes are written before, between and after the cells of the list.
InsertFiller ==
    /\ pc = "encoded"
    /\ depth = 0
    /\ fill = <<>>
    /\ \E F \in [1..(Len(list) + 1) ->
                    Strings(FillerBytes, MaxDoc - Weight(list))] :
        /\ SumLen(F, 1) >= 1
        /\ SumLen(F, 1) <= MaxDoc - Weight(list)
        /\ fill' = F
        /\ string' = Interleave(string, list, F, 1, 0)
    /\ UNCHANGED <<list, frame, depth, level, index, yielded, nones, pc,
                   panicked>>

\* NelfIter::from_string(&nelf)
NelfIter_from_string ==
    /\ pc = "encoded"
    /\ index' = 0
    /\ yielded' = <<>>
    /\ nones' = 0
    /\ pc' = "iter"
    /\ UNCHANGED <<list, fill, frame, depth, level, string, panicked>>

\* NelfIter::from_string(iter.next().unwrap()): decode the first cell's content.
Descend ==
    /\ pc = "iter"
    /\ level > 0
    /\ yielded # <<>>
    /\ string' = Content(string, yielded[1])
    /\ index' = 0
    /\ yielded' = <<>>
    /\ nones' = 0
    /\ level' = level - 1
    /\ UNCHANGED <<list, fill, frame, depth, pc, panicked>>

Next ==
    \/ ToNelf
    \/ Wrap
    \/ InsertFiller
    \/ NelfIter_from_string
    \/ NelfIter_next
    \/ Descend

Spec == Init /\ [][Next]_vars

(***************************************************************************)
(* A cell framed by hand: O^m ++ s ++ C^m for any scheme and run length.   *)
(***************************************************************************)
InitFrame ==
    /\ \E s \in Strings(Bytes, MaxLen), O \in Delims, m \in 1..MaxM :
        /\ list = <<s>>
        /\ frame = [open |-> O, n |-> m]
        /\ string = Rep(O, m) \o s \o Rep(rch(O), m)
    /\ index = 0
    /\ yielded = <<>>
    /\ nones = 0
    /\ pc = "iter"
    /\ panicked = FALSE
    /\ fill = <<>>
    /\ depth = 0
    /\ level = 0

NextFrame == NelfIter_next

SpecFrame == InitFrame /\ [][NextFrame]_vars

(***************************************************************************)
(* The decoded sequence, and the reference rule of scheme selection.       *)
(***************************************************************************)
Decoded == Contents(string, yielded)

IsPrefix(a, b) == Len(a) <= Len(b) /\ \A i \in 1..Len(a) : a[i] = b[i]

\* The run length to_cell frames s with.
RunUsed(s) == (Len(to_cell(s)) - Len(s)) \div 2

Schemes == {[open |-> PIPE, close |-> PIPE, rank |-> 1],
            [open |-> FWD, close |-> BACK, rank |-> 2],
            [open |-> BACK, close |-> FWD, rank |-> 3]}

Eligible(s, sch) == s[1] # sch.open /\ s[Len(s)] # sch.close

\* s holds k consecutive bytes c somewhere.
HasRun(s, c, k) ==
    \E j \in 1..(Len(s) - k + 1) : \A i \in 0..(k - 1) : s[j + i] = c

LongestRun(s, c) == CHOOSE k \in 0..Len(s) :
    /\ (k > 0 => HasRun(s, c, k))
    /\ ~HasRun(s, c, k + 1)

Required(s, sch) == 1 + LongestRun(s, sch.close)

RefCell(s) ==
    IF s = <<>> THEN <<FWD, BACK>>
    ELSE LET sch == CHOOSE x \in Schemes :
                 /\ Eligible(s, x)
                 /\ \A y \in Schemes : Eligible(s, y) =>
                        \/ Required(s, x) < Required(s, y)
                        \/ /\ Required(s, x) = Required(s, y)
                           /\ x.rank <= y.rank
             n == Required(s, sch)
         IN Rep(sch.open, n) \o s \o Rep(sch.close, n)

\* k-fold wrapping of an encoded list as the one cell of an outer list.
RECURSIVE WrapK(_, _)
WrapK(k, x) == IF k = 0 THEN x ELSE to_nelf(<<WrapK(k - 1, x)>>)

Plain == pc = "iter" /\ depth = 0 /\ fill = <<>>

(***************************************************************************)
(* C1: decoding to_cell(s) yields exactly one cell, whose content is s,    *)
(* and the call after it returns None.                                     *)
(***************************************************************************)
C1_CellRoundTrip ==
    (Plain /\ Len(list) = 1) =>
        /\ string = to_cell(list[1])
        /\ ~panicked
        /\ Len(yielded) <= 1
        /\ (Len(yielded) = 1 => Decoded[1] = list[1])
        /\ (nones >= 1 => Len(yielded) = 1)

\* The string "|/\" (delimiters only) came back, and the next call ended.
C1_Witness ==
    /\ Plain
    /\ list = <<(<<PIPE, FWD, BACK>>)>>
    /\ Decoded = list
    /\ nones = 1

(***************************************************************************)
(* C2: decoding to_nelf(L) yields exactly the elements of L, in order and  *)
(* in the same number.                                                     *)
(***************************************************************************)
C2_ListRoundTrip ==
    Plain =>
        /\ ~panicked
        /\ IsPrefix(Decoded, list)
        /\ (nones >= 1 => Decoded = list)

\* A list of two cells, the first closing with the byte the second opens with
\* (as in |A||A|), came back whole.
C2_Witness ==
    /\ Plain
    /\ Len(list) = 2
    /\ string[Len(to_cell(list[1]))] = string[Len(to_cell(list[1])) + 1]
    /\ Decoded = list
    /\ nones = 1

(***************************************************************************)
(* C3: to_cell(s) is FWD BACK for the empty string, and otherwise O^n s    *)
(* C^n for the eligible scheme of least required run length, ties broken   *)
(* in the order PIPE, FWD, BACK.                                           *)
(***************************************************************************)
C3_SchemeSelection ==
    (pc # "input" /\ depth = 0 /\ fill = <<>> /\ Len(list) = 1) =>
        string = RefCell(list[1])

\* "/|" is encoded as \\/|// : only the back scheme is eligible, with n = 2.
C3_Witness ==
    /\ pc = "encoded"
    /\ depth = 0
    /\ fill = <<>>
    /\ list = <<(<<FWD, PIPE>>)>>
    /\ string = <<BACK, BACK, FWD, PIPE, FWD, FWD>>

(***************************************************************************)
(* C4: with n the run length to_cell(s) uses, no scheme framing s with a   *)
(* run length m < n decodes to exactly [s].                                *)
(***************************************************************************)
C4_Minimality ==
    (pc = "iter" /\ frame.n >= 1 /\ frame.n < RunUsed(list[1]) /\ nones >= 1)
        => Decoded # list

\* "//|" needs n = 3; framed with m = 2 it was decoded to the end.
C4_Witness ==
    /\ pc = "iter"
    /\ list = <<(<<FWD, FWD, PIPE>>)>>
    /\ RunUsed(list[1]) = 3
    /\ frame = [open |-> BACK, n |-> 2]
    /\ nones >= 1

(***************************************************************************)
(* C5: filler strings without delimiter bytes, written before the first    *)
(* cell, between cells and after the last cell of to_nelf(L), leave the    *)
(* decoded sequence equal to L.                                            *)
(***************************************************************************)
C5_FillerTolerance ==
    (pc = "iter" /\ fill # <<>>) =>
        /\ ~panicked
        /\ IsPrefix(Decoded, list)
        /\ (nones >= 1 => Decoded = list)

\* Two cells with filler before, between and after them came back whole.
C5_Witness ==
    /\ pc = "iter"
    /\ Len(list) = 2
    /\ Len(fill) = 3
    /\ \A i \in 1..3 : fill[i] # <<>>
    /\ Decoded = list
    /\ nones = 1

(***************************************************************************)
(* C8: a list wrapped k times as the single cell of an outer list decodes, *)
(* at each level, to exactly one cell holding the next level's encoding,   *)
(* and at the innermost level to the original list.                        *)
(***************************************************************************)
C8_Nesting ==
    (pc = "iter" /\ depth >= 1) =>
        LET expect == IF level = 0 THEN list
                      ELSE <<WrapK(level - 1, to_nelf(list))>>
        IN /\ ~panicked
           /\ string = WrapK(level, to_nelf(list))
           /\ IsPrefix(Decoded, expect)
           /\ (nones >= 1 => Decoded = expect)

\* A list of two strings, wrapped twice and unwrapped twice, came back whole.
C8_Witness ==
    /\ pc = "iter"
    /\ depth = 2
    /\ level = 0
    /\ Len(list) = 2
    /\ list[1] # <<>>
    /\ Decoded = list
    /\ nones = 1

(***************************************************************************)
(* What a buffer looks like from a cursor, stated on the bytes themselves. *)
(***************************************************************************)

\* p is the offset of the first delimiter byte at or after idx.
FirstDelimAt(str, idx, p) ==
    /\ idx <= p
    /\ p < Len(str)
    /\ str[p + 1] \in Delims
    /\ \A q \in idx..(p - 1) : str[q + 1] \notin Delims

\* The first delimiter at or after idx starts a run of exactly n identical
\* bytes, and a different byte follows it.
OpeningRun(str, idx, p, n) ==
    /\ FirstDelimAt(str, idx, p)
    /\ n >= 1
    /\ p + n < Len(str)
    /\ \A i \in 0..(n - 1) : str[p + i + 1] = str[p + 1]
    /\ str[p + n + 1] # str[p + 1]

\* n consecutive bytes c lie somewhere at or after offset start.
ClosedWithin(str, start, n, c) ==
    \E j \in start..(Len(str) - n) : \A i \in 0..(n - 1) : str[j + i + 1] = c

\* The first delimiter at or after idx starts a run that reaches the end.
Dangling(str, idx) ==
    \E p \in 0..(Len(str) - 1) :
        /\ FirstDelimAt(str, idx, p)
        /\ \A q \in p..(Len(str) - 1) : str[q + 1] = str[p + 1]

\* No delimiter byte at or after idx.
NoDelim(str, idx) == \A q \in idx..(Len(str) - 1) : str[q + 1] \notin Delims

Last(s) == s[Len(s)]

(***************************************************************************)
(* C6: when next finds an opening run of length n followed by a differing  *)
(* byte and the buffer ends before n consecutive closing bytes are seen,   *)
(* the call yields the slice from just after the opening run to the end of *)
(* the buffer (a partial closing run included) and leaves the cursor at    *)
(* the end of the buffer; the call after it returns None.                  *)
(***************************************************************************)
C6_LenientRecovery ==
    [][/\ \A p \in 0..Len(string), n \in 1..Len(string) :
            ((OpeningRun(string, index, p, n)
                /\ ~ClosedWithin(string, p + n, n, rch(string[p + 1])))
             => (/\ yielded' = Append(yielded, [a |-> p + n, b |-> Len(string)])
                 /\ index' = Len(string)
                 /\ nones' = nones))
        /\ ((yielded # <<>> /\ Last(yielded).b = Len(string)
                /\ index = Len(string))
            => (yielded' = yielded /\ nones' = nones + 1))
      ]_vars

\* "||A|": the unclosed cell "A|" was yielded, then None.
C6_Witness ==
    /\ string = <<PIPE, PIPE, ByteA, PIPE>>
    /\ yielded = <<[a |-> 2, b |-> 4]>>
    /\ index = 4
    /\ nones = 1

(***************************************************************************)
(* C7: when the first delimiter at or after the cursor starts a run that   *)
(* reaches the end of the buffer, or no delimiter is left, next returns    *)
(* None, the cells yielded so far stay as they are, and the same holds of  *)
(* every later call.                                                       *)
(***************************************************************************)
C7_DanglingRun ==
    [][(Dangling(string, index) \/ NoDelim(string, index))
        => /\ yielded' = yielded
           /\ nones' = nones + 1
           /\ (Dangling(string, index') \/ NoDelim(string, index'))
      ]_vars

\* "|A|||": "A" was yielded, the dangling "||" ended the sequence, twice.
C7_Witness ==
    /\ string = <<PIPE, ByteA, PIPE, PIPE, PIPE>>
    /\ yielded = <<[a |-> 1, b |-> 2]>>
    /\ Dangling(string, index)
    /\ nones = 2

(***************************************************************************)
(* C9: the cursor stays within 0..len and never decreases, every yielded   *)
(* slice [a, b) has a <= b <= len, and no call panics.                     *)
(***************************************************************************)
C9_CursorSafety ==
    /\ [](/\ 0 <= index
          /\ index <= Len(string)
          /\ ~panicked
          /\ \A i \in 1..Len(yielded) :
                /\ 0 <= yielded[i].a
                /\ yielded[i].a <= yielded[i].b
                /\ yielded[i].b <= Len(string))
    /\ [][index' >= index]_vars

\* Two cells were yielded, the second one empty, and the cursor is at the end.
C9_Witness ==
    /\ Len(yielded) = 2
    /\ yielded[2].a = yielded[2].b
    /\ index = Len(string)
    /\ nones = 1

(***************************************************************************)
(* C10: a call that yields a cell moves the cursor on by at least 2, so a  *)
(* buffer of length L yields at most L \div 2 cells, and the call made     *)
(* once that many were yielded returns None.                               *)
(***************************************************************************)
C10_Progress ==
    /\ [][(Len(yielded') > Len(yielded)) => (index' >= index + 2)]_vars
    /\ [](2 * Len(yielded) <= Len(string))
    /\ [][(Len(yielded) = Len(string) \div 2)
            => (yielded' = yielded /\ nones' = nones + 1)]_vars

\* A buffer of 4 bytes that yielded 2 cells and then ended.
C10_Witness ==
    /\ Len(string) = 4
    /\ Len(yielded) = 2
    /\ nones = 1

====
